---- MODULE Spec2Model ----
(***************************************************************************)
(* Verification model of the lensing tutorial notebooks.                   *)
(*                                                                         *)
(* Part 1: calculate_2d_spectrum (src/CMB_School_Part_10.ipynb), the       *)
(* binned 2D cross-power estimator, executed statement by statement.       *)
(*                                                                         *)
(* Numbers.  Maps hold integers.  np.fft.ifft2 of an h x w grid is kept    *)
(* as Gaussian-integer numerators over the common denominator h*w (exact   *)
(* for h, w in {1, 2, 4}, whose roots of unity are powers of i).  A bin    *)
(* value is a fraction num/den or the NaN marker.  ell2d is irrational     *)
(* (a square root); comparisons with a bin edge are done exactly on the    *)
(* squares.  Floating-point rounding is not modelled.                      *)
(***************************************************************************)
EXTENDS Integers, Sequences, FiniteSets, TLC

\* ------------------------------------------------------------------ bounds
MaxAmp == 1
MaxDeltaEll == 3
MaxEllMax == 4

GridSizes == {2, 4}
\* pixel sizes in arcminutes (coarse, so that the multipoles are small numbers)
PixSizes == {1800, 3600}

VARIABLES
    pc,          \* position of the running cell: "idle", ..., "done", "error"
    error,       \* the exception raised, or "none"
    N, pix_size, \* grid size and pixel size (arcminutes)
    \* calculate_2d_spectrum: arguments, locals, return value
    Map1, Map2, delta_ell, ell_max,
    N_bins, ell_array, CL_array, PSMap, i,
    inds_in_bin, \* history of the local inds_in_bin: bin index -> pixels selected
    result,      \* the returned (ell_array, CL_array * scale), or "none"
    \* the Fourier coordinate grids and the band limits
    ly, lx,
    modlmap,     \* holds the squares modlmap[p]^2 (modlmap itself is a square root)
    ellmin, ellmax,
    \* qe_reconstruct: arguments, locals, return value
    tmap, unlensed_cmb_power_2d, total_cmb_power_2d,
    inv_noise_filter, grad_filter, gradTy, gradTx,
    filtered_gradTy, filtered_gradTx, filtered_T,
    qe_result,
    divisions,   \* history: the divisions evaluated so far, one entry per pixel
    globals,     \* the names bound at notebook level
    \* div: arguments and return value
    imap, imapy, imapx, div_result,
    \* kmask: argument and return value
    value_grid, kmask_out,
    \* the reconstruction notebook: what its data files and literals hold, and
    \* the notebook-level names its cells bind
    data, ucltt, lcltt, kbeam2d, Clnoise, observed,
    \* lens_map: arguments, locals, return value
    input_map, kappa, phi, grad_phi, deflected_pos, deflected_pix, output_map,
    lens_result

common == <<pc, error, N, pix_size>>
psvars == <<Map1, Map2, delta_ell, ell_max, N_bins, ell_array,
            CL_array, PSMap, i, inds_in_bin, result>>
fgvars == <<ly, lx, modlmap, ellmin, ellmax>>
qevars == <<tmap, unlensed_cmb_power_2d, total_cmb_power_2d, inv_noise_filter,
            grad_filter, gradTy, gradTx, filtered_gradTy, filtered_gradTx,
            filtered_T, qe_result, divisions, globals>>
divvars == <<imap, imapy, imapx, div_result>>
kmvars == <<value_grid, kmask_out>>
nbvars == <<data, ucltt, lcltt, kbeam2d, Clnoise, observed>>
lmvars == <<input_map, kappa, phi, grad_phi, deflected_pos, deflected_pix,
            output_map, lens_result>>
vars == <<common, psvars, fgvars, qevars, divvars, kmvars, nbvars, lmvars>>

\* ----------------------------------------------------------------- helpers
Pixels(h, w) == (0 .. h - 1) \X (0 .. w - 1)

RECURSIVE SumOver(_, _)
SumOver(S, f) ==
    IF S = {} THEN 0
    ELSE LET x == CHOOSE y \in S : TRUE IN f[x] + SumOver(S \ {x}, f)

RECURSIVE GCD(_, _)
GCD(a, b) == IF b = 0 THEN a ELSE GCD(b, a % b)

\* complex numbers are pairs <<re, im>>
CMul(a, b) == <<a[1] * b[1] - a[2] * b[2], a[1] * b[2] + a[2] * b[1]>>
Conj(a) == <<a[1], -a[2]>>

\* i^m
IPow(m) ==
    CASE m % 4 = 0 -> <<1, 0>>
      [] m % 4 = 1 -> <<0, 1>>
      [] m % 4 = 2 -> <<-1, 0>>
      [] OTHER     -> <<0, -1>>

\* a real grid: [h, w, v] with v : Pixels(h, w) -> Int
MkMap(h, w, f) == [h |-> h, w |-> w, v |-> [p \in Pixels(h, w) |-> f[p]]]

\* np.fft.fftshift: every axis rolled by n // 2
fftshift(g) ==
    [g EXCEPT !.v = [p \in Pixels(g.h, g.w) |->
        g.v[<<(p[1] + g.h - (g.h \div 2)) % g.h, (p[2] + g.w - (g.w \div 2)) % g.w>>]]]

\* np.fft.ifft2: X[k] = (1 / (h w)) * sum_m x[m] exp(+2 pi i (k1 m1 / h + k2 m2 / w));
\* the result is [h, w, den, v] with v[k] the numerator over den = h * w
ifft2(g) ==
    [h |-> g.h, w |-> g.w, den |-> g.h * g.w,
     v |-> [k \in Pixels(g.h, g.w) |->
        LET ph(m) == (4 \div g.h) * k[1] * m[1] + (4 \div g.w) * k[2] * m[2]
        IN  <<SumOver(Pixels(g.h, g.w), [m \in Pixels(g.h, g.w) |-> g.v[m] * IPow(ph(m))[1]]),
              SumOver(Pixels(g.h, g.w), [m \in Pixels(g.h, g.w) |-> g.v[m] * IPow(ph(m))[2]])>>]]

\* numpy broadcasting of two 2-d shapes
Broadcastable(a, b) ==
    /\ (a.h = b.h \/ a.h = 1 \/ b.h = 1)
    /\ (a.w = b.w \/ a.w = 1 \/ b.w = 1)

BIdx(g, p) == <<IF g.h = 1 THEN 0 ELSE p[1], IF g.w = 1 THEN 0 ELSE p[2]>>

Max(a, b) == IF a >= b THEN a ELSE b

\* np.imag in place of np.real
ImagOfConjProduct(a, b) == CMul(Conj(a), b)[2]

\* the conjugate forgotten
RealOfPlainProduct(a, b) == CMul(a, b)[1]

\* np.real(np.conj(a) * b) for one pixel
RealOfConjProduct(a, b) == CMul(Conj(a), b)[1]

\* np.real(np.conj(FMap1) * FMap2), broadcast
CrossPower(F1, F2) ==
    [h |-> Max(F1.h, F2.h), w |-> Max(F1.w, F2.w), den |-> F1.den * F2.den,
     v |-> [p \in Pixels(Max(F1.h, F2.h), Max(F1.w, F2.w)) |->
              RealOfConjProduct(F1.v[BIdx(F1, p)], F2.v[BIdx(F2, p)])]]

\* PSMap = fftshift(real(conj(ifft2(fftshift(Map1))) * ifft2(fftshift(Map2))))
PSMapOf(m1, m2) == fftshift(CrossPower(ifft2(fftshift(m1)), ifft2(fftshift(m2))))

\* ell2d on the n x n grid: inds[j] = (j + .5 - n/2) / (n - 1) = A(j) / (2 (n - 1)),
\* kX[r, c] = inds[c] / (pix * pi / 10800), kY = kX^T, ell2d = 2 pi sqrt(kX^2 + kY^2)
\*          = 10800 * sqrt(A(c)^2 + A(r)^2) / ((n - 1) * pix)
OddIndex(n, j) == 2 * j + 1 - n
Ell2dSq(n, p) == OddIndex(n, p[2]) * OddIndex(n, p[2]) + OddIndex(n, p[1]) * OddIndex(n, p[1])

\* ell2d[p] >= L, for an integer L >= 0, decided exactly on the squares
\* (the fraction 10800 / ((n - 1) pix) is reduced first)
EllGe(n, pix, p, L) ==
    LET g == GCD(60 * 180, (n - 1) * pix)
        a == (60 * 180) \div g
        b == ((n - 1) * pix) \div g
    IN  a * a * Ell2dSq(n, p) >= (L * b) * (L * b)

\* the lower edge of the bin forgotten
InBinNoLower(n, pix, p, j, d) == ~EllGe(n, pix, p, (j + 1) * d)

\* (ell2d >= i * delta_ell) * (ell2d < (i + 1) * delta_ell) at pixel p
InBin(n, pix, p, j, d) == EllGe(n, pix, p, j * d) /\ ~EllGe(n, pix, p, (j + 1) * d)

\* .nonzero() of the bin's boolean grid
BinPixels(n, pix, j, d) == {p \in Pixels(n, n) : InBin(n, pix, p, j, d)}

NaN == [nan |-> TRUE, num |-> 0, den |-> 1]
Zero == [nan |-> FALSE, num |-> 0, den |-> 1]

\* an empty selection averaged to zero
MeanZeroIfEmpty(ps, sel) ==
    IF sel = {} THEN Zero
    ELSE [nan |-> FALSE, num |-> SumOver(sel, ps.v), den |-> Cardinality(sel) * ps.den]

\* np.mean(PSMap[inds_in_bin]): NaN (with a warning) for an empty selection
Mean(ps, sel) ==
    IF sel = {} THEN NaN
    ELSE [nan |-> FALSE, num |-> SumOver(sel, ps.v), den |-> Cardinality(sel) * ps.den]

\* PSMap[inds_in_bin] raises IndexError when an index is outside PSMap
IndexOutOfBounds(ps, sel) == \E p \in sel : p[1] >= ps.h \/ p[2] >= ps.w

\* ell_array = np.arange(N_bins) is an integer array, so the assignment
\* ell_array[i] = (i + 0.5) * delta_ell stores the value truncated
BinCentreStored(j, d) == ((2 * j + 1) * d) \div 2

\* N_bins = int(ell_max / delta_ell)
NBinsOf(emax, d) == emax \div d

\* CL * np.sqrt(pix_size / 60. * np.pi / 180.) * 2.: the value is
\* (num / den) * sqrt(rt * pi / 10800); NaN stays NaN
Scaled(c, pix) == [nan |-> c.nan, num |-> 2 * c.num, den |-> c.den, rt |-> pix]

\* ------------------------------------------------------------------ inputs
\* a map with amplitude a at pixel p and b at the pixel half a grid below p
TwoPixelMap(n, p, a, b) ==
    MkMap(n, n, [q \in Pixels(n, n) |->
        IF q = p THEN a ELSE IF q = <<(p[1] + n \div 2) % n, p[2]>> THEN b ELSE 0])

ProbePixels(n) == {<<0, 1>>, <<1, 0>>, <<1, 1>>, <<n - 1, n - 1>>}

FirstMaps ==
    {TwoPixelMap(n, p, a, b) : <<n, p, a, b>> \in
        {q \in GridSizes \X ((0 .. 3) \X (0 .. 3)) \X (1 .. MaxAmp) \X {-1, 0, 1} :
            q[2] \in ProbePixels(q[1])}}

\* what the second argument may be, given the first
SecondMaps(m1) ==
    {m1,
     TwoPixelMap(m1.h, <<0, 1>>, 1, 0),
     TwoPixelMap(m1.h, <<1, 0>>, 2, 1),
     MkMap(1, m1.w, [q \in Pixels(1, m1.w) |-> q[2] + 1]),   \* a single row
     MkMap(1, 1, [q \in Pixels(1, 1) |-> 2]),                \* a single pixel
     TwoPixelMap(6 - m1.h, <<1, 1>>, 1, 0)}      \* the other grid size

\* the variables of calculate_2d_spectrum before any call
PSIdle ==
    /\ N_bins = 0
    /\ ell_array = <<>>
    /\ CL_array = <<>>
    /\ PSMap = "none"
    /\ i = 0
    /\ inds_in_bin = <<>>
    /\ result = "none"

PSInit ==
    /\ pc = "idle"
    /\ error = "none"
    /\ Map1 \in FirstMaps
    /\ Map2 \in SecondMaps(Map1)
    /\ delta_ell \in 1 .. MaxDeltaEll
    /\ ell_max \in 1 .. MaxEllMax
    /\ pix_size \in PixSizes
    /\ N \in GridSizes
    /\ PSIdle

\* ----------------------------------------------------------------- actions
\* calculate_2d_spectrum up to the while loop
SpectrumCall ==
    /\ pc = "idle"
    /\ N_bins' = NBinsOf(ell_max, delta_ell)
    /\ ell_array' = [j \in 0 .. N_bins' - 1 |-> j]
    /\ CL_array' = [j \in 0 .. N_bins' - 1 |-> Zero]
    /\ inds_in_bin' = [j \in {} |-> {}]
    /\ i' = 0
    /\ IF Broadcastable(Map1, Map2)
       THEN /\ PSMap' = PSMapOf(Map1, Map2)
            /\ pc' = "loop"
            /\ error' = "none"
       ELSE /\ PSMap' = "none"
            /\ pc' = "error"
            /\ error' = "ValueError"
    /\ UNCHANGED <<Map1, Map2, delta_ell, ell_max, pix_size, N, result>>
    /\ UNCHANGED <<fgvars, qevars, divvars, kmvars, nbvars, lmvars>>

\* one pass of the while loop
SpectrumLoop ==
    /\ pc = "loop"
    /\ i < N_bins
    /\ LET sel == BinPixels(N, pix_size, i, delta_ell) IN
        /\ ell_array' = [ell_array EXCEPT ![i] = BinCentreStored(i, delta_ell)]
        /\ inds_in_bin' = [j \in 0 .. i |-> IF j = i THEN sel ELSE inds_in_bin[j]]
        /\ IF IndexOutOfBounds(PSMap, sel)
           THEN /\ pc' = "error"
                /\ error' = "IndexError"
                /\ UNCHANGED <<CL_array, i>>
           ELSE /\ CL_array' = [CL_array EXCEPT ![i] = Mean(PSMap, sel)]
                /\ i' = i + 1
                /\ UNCHANGED <<pc, error>>
    /\ UNCHANGED <<Map1, Map2, delta_ell, ell_max, pix_size, N, N_bins, PSMap, result>>
    /\ UNCHANGED <<fgvars, qevars, divvars, kmvars, nbvars, lmvars>>

\* the return statement
SpectrumReturn ==
    /\ pc = "loop"
    /\ ~(i < N_bins)
    /\ result' = [ell |-> ell_array,
                  cl |-> [j \in 0 .. N_bins - 1 |-> Scaled(CL_array[j], pix_size)]]
    /\ pc' = "done"
    /\ UNCHANGED <<Map1, Map2, delta_ell, ell_max, pix_size, N, N_bins, ell_array,
                   CL_array, PSMap, i, inds_in_bin, error>>
    /\ UNCHANGED <<fgvars, qevars, divvars, kmvars, nbvars, lmvars>>

PSNext == SpectrumCall \/ SpectrumLoop \/ SpectrumReturn

\* ------------------------------------------------- claims: power spectrum
\* both maps have the N x N shape of the ell2d grid
SameShape == Map1.h = N /\ Map1.w = N /\ Map2.h = N /\ Map2.w = N

Bins == 0 .. N_bins - 1

\* C1: for two maps of the same N x N shape, calculate_2d_spectrum(A, B, ...)
\* returns the bin centres and, in every bin, the power value (or the NaN
\* marker of an empty bin) that calculate_2d_spectrum(B, A, ...) returns.
C1_SpectrumSymmetric ==
    (pc = "done" /\ SameShape) =>
        /\ DOMAIN result.cl = 0 .. NBinsOf(ell_max, delta_ell) - 1
        /\ \A j \in DOMAIN result.cl :
            /\ result.ell[j] = BinCentreStored(j, delta_ell)
            /\ result.cl[j] =
                 Scaled(Mean(PSMapOf(Map2, Map1), BinPixels(N, pix_size, j, delta_ell)),
                        pix_size)

\* two different maps whose cross-power is non-zero in some bin
C1_Witness ==
    /\ pc = "done" /\ SameShape /\ Map1 # Map2
    /\ \E j \in Bins : ~result.cl[j].nan /\ result.cl[j].num # 0

\* C2: every bin of an auto-spectrum calculate_2d_spectrum(A, A, ...) that holds
\* at least one pixel has a value >= 0 (non-negative numerator, positive
\* denominator, positive scale factor sqrt(pix_size * pi / 10800) * 2).
C2_AutoNonNegative ==
    (pc = "done" /\ Map1 = Map2) =>
        \A j \in Bins :
            inds_in_bin[j] # {} =>
                /\ ~result.cl[j].nan
                /\ result.cl[j].num >= 0
                /\ result.cl[j].den > 0
                /\ result.cl[j].rt > 0

\* an auto-spectrum with a strictly positive bin
C2_Witness ==
    /\ pc = "done" /\ Map1 = Map2
    /\ \E j \in Bins : inds_in_bin[j] # {} /\ result.cl[j].num > 0

\* C3: calculate_2d_spectrum returns floor(ell_max / delta_ell) entries and the
\* bin centre ell_array[i] equals (i + 0.5) * delta_ell for every i.
C3_BinCentresExact ==
    (pc = "done" /\ SameShape) =>
        /\ DOMAIN result.ell = 0 .. (ell_max \div delta_ell) - 1
        /\ \A j \in DOMAIN result.ell : 2 * result.ell[j] = (2 * j + 1) * delta_ell

\* the bins a pixel was selected into
BinsOfPixel(p) == {j \in DOMAIN inds_in_bin : p \in inds_in_bin[j]}

\* C4 (as claimed): every pixel with ell2d in [0, ell_max) is selected into
\* exactly one bin and every pixel with ell2d >= ell_max into none.
C4_BinsCoverEllMax ==
    (pc = "done" /\ SameShape) =>
        \A p \in Pixels(N, N) :
            IF EllGe(N, pix_size, p, ell_max)
            THEN BinsOfPixel(p) = {}
            ELSE Cardinality(BinsOfPixel(p)) = 1

\* C4 (amended): the bins are pairwise disjoint and cover
\* [0, floor(ell_max / delta_ell) * delta_ell): every pixel with ell2d below that
\* edge is selected into exactly one bin, the bin whose mean it enters, and
\* every pixel at or above it into none.
C4_BinsCoverWholeBins ==
    pc = "done" =>
        /\ \A p \in Pixels(N, N) :
            IF EllGe(N, pix_size, p, (ell_max \div delta_ell) * delta_ell)
            THEN BinsOfPixel(p) = {}
            ELSE Cardinality(BinsOfPixel(p)) = 1
        /\ \A j \in Bins : CL_array[j] = Mean(PSMap, inds_in_bin[j])

\* ell_max is no multiple of delta_ell and a pixel lies between the last bin's
\* upper edge and ell_max
C4_Witness ==
    /\ pc = "done" /\ SameShape
    /\ ell_max % delta_ell # 0
    /\ \E p \in Pixels(N, N) :
        /\ EllGe(N, pix_size, p, (ell_max \div delta_ell) * delta_ell)
        /\ ~EllGe(N, pix_size, p, ell_max)
    /\ \E p \in Pixels(N, N) : BinsOfPixel(p) # {}

\* C5: with maps of the grid's shape no statement of the call raises (neither
\* the product of the transforms nor any pass of the loop), so it runs to its
\* return; it returns N_bins entries, an empty bin's value is the NaN marker
\* and a non-empty bin's value is the scaled mean over its own pixels,
\* whatever bins are empty.
C5_EmptyBinIsNaN ==
    SameShape =>
        /\ pc # "error"
        /\ pc = "idle" => Broadcastable(Map1, Map2)
        /\ (pc = "loop" /\ i < N_bins) =>
               ~IndexOutOfBounds(PSMap, BinPixels(N, pix_size, i, delta_ell))
        /\ pc = "done" =>
            /\ DOMAIN result.cl = Bins
            /\ \A j \in Bins :
                IF BinPixels(N, pix_size, j, delta_ell) = {}
                THEN result.cl[j].nan
                ELSE /\ ~result.cl[j].nan
                     /\ result.cl[j] =
                          Scaled(Mean(PSMap, BinPixels(N, pix_size, j, delta_ell)), pix_size)

\* an empty bin came before a non-empty bin with non-zero power
C5_Witness ==
    /\ pc = "done" /\ SameShape
    /\ \E j, k \in Bins :
        /\ j < k
        /\ inds_in_bin[j] = {} /\ result.cl[j].nan
        /\ inds_in_bin[k] # {} /\ result.cl[k].num # 0

\* C9: whenever Map2's shape differs from Map1's, or the maps' shape from the
\* N x N grid, the call fails and returns no spectrum (stated for the calls
\* that ask for at least one bin).
C9_ShapeMismatchFails ==
    (~SameShape /\ NBinsOf(ell_max, delta_ell) > 0) => pc # "done"




(***************************************************************************)
(* Part 2: qe_reconstruct and div (src/unnamed/part_000).                  *)
(*                                                                         *)
(* Transfer functions (Fourier-space grids) are computed pixel by pixel;   *)
(* a quotient is [kind, num, den] with kind "fin", "inf" or "nan", as      *)
(* numpy's float division produces them.  The map-space calls into         *)
(* lens_modules (filter_map, gradient) are kept as terms over their        *)
(* arguments: <<"filter_map", map, transfer>> and so on.                   *)
(***************************************************************************)
MaxPower == 2
MaxEllMin == 2

\* pixel sizes (arcminutes) for which 21600 / (N * pix_size) is an integer
FourierPixSizes == {2700, 5400}

NoUpper == 0 - 1

Fin(n, d) == [kind |-> "fin", num |-> n, den |-> d]
Inf == [kind |-> "inf", num |-> 1, den |-> 0]
NotANumber == [kind |-> "nan", num |-> 0, den |-> 0]

\* numpy float division x / y of an integer x >= 0 by an integer y >= 0:
\* x / 0 is inf (0 / 0 is nan) with a RuntimeWarning, no exception
Divide(x, y) ==
    IF y # 0 THEN Fin(x, y)
    ELSE IF x = 0 THEN NotANumber ELSE Inf

\* np.fft.fftfreq(n) * n
FreqIndex(n, j) == IF 2 * j < n THEN j ELSE j - n

\* get_ells(N, pix_size): ly varies along rows, lx along columns, in units of
\* 2 pi / (N * pix_size in radians) = 21600 / (N * pix_size)
EllUnit(n, pix) == (2 * 60 * 180) \div (n * pix)
LyOf(n, pix) == [p \in Pixels(n, n) |-> FreqIndex(n, p[1]) * EllUnit(n, pix)]
LxOf(n, pix) == [p \in Pixels(n, n) |-> FreqIndex(n, p[2]) * EllUnit(n, pix)]
ModlSqOf(n, pix) ==
    [p \in Pixels(n, n) |-> LyOf(n, pix)[p] * LyOf(n, pix)[p] + LxOf(n, pix)[p] * LxOf(n, pix)[p]]

\* the upper limit inclusive
KMaskClosedUpper(grid, modl, emin, emax) ==
    [p \in DOMAIN grid |->
        IF modl[p] < emin * emin \/ (emax # NoUpper /\ modl[p] > emax * emax)
        THEN Fin(0, 1) ELSE grid[p]]

\* lm.kmask(value_grid, modlmap, ellmin, ellmax): a copy of value_grid with the
\* pixels outside [ellmin, ellmax) set to zero (modl holds the squares)
KMask(grid, modl, emin, emax) ==
    [p \in DOMAIN grid |->
        IF modl[p] < emin * emin \/ (emax # NoUpper /\ modl[p] >= emax * emax)
        THEN Fin(0, 1) ELSE grid[p]]

\* terms for the map-space operations
FilterMap(m, transfer) == <<"filter_map", m, transfer>>
GradientY(m, l_y) == <<"gradient_y", m, l_y>>
GradientX(m, l_x) == <<"gradient_x", m, l_x>>
Product(a, b) == <<"product", a, b>>
Divergence(a, b, l_y, l_x) == <<"divergence", a, b, l_y, l_x>>
Negated(m) == <<"negative", m>>

\* the divisions an elementwise a / b evaluates: one at every pixel of the grid
DivisionsOf(line, den) == {[line |-> line, pixel |-> p, den |-> den[p]] : p \in DOMAIN den}

\* an isotropic power grid, interp(ells, cl)(modlmap): one value at the origin,
\* one for 0 < modlmap <= 2 and one above
PowerGrid(tab, modl) ==
    [p \in DOMAIN modl |-> tab[IF modl[p] = 0 THEN 0 ELSE IF modl[p] <= 4 THEN 1 ELSE 2]]

\* the names bound at notebook level when qe_reconstruct and div are called
NotebookGlobals ==
    {"np", "plt", "lm", "calculate_2d_spectrum", "make_map", "Plot_Map",
     "qe_reconstruct", "div", "interp", "tmap", "unlensed_cmb_power_2d",
     "total_cmb_power_2d", "ellmin", "ellmax", "modlmap", "ly", "lx", "kappa"}

NoGrid == <<>>

QEIdle ==
    /\ tmap = <<"tmap">>
    /\ unlensed_cmb_power_2d = NoGrid
    /\ total_cmb_power_2d = NoGrid
    /\ inv_noise_filter = NoGrid
    /\ grad_filter = NoGrid
    /\ gradTy = NoGrid
    /\ gradTx = NoGrid
    /\ filtered_gradTy = NoGrid
    /\ filtered_gradTx = NoGrid
    /\ filtered_T = NoGrid
    /\ qe_result = [kind |-> "none"]
    /\ divisions = {}
    /\ globals = NotebookGlobals

FGIdle ==
    /\ ly = NoGrid /\ lx = NoGrid /\ modlmap = NoGrid
    /\ ellmin = 0 /\ ellmax = NoUpper

DivIdle == imap = NoGrid /\ imapy = NoGrid /\ imapx = NoGrid /\ div_result = [kind |-> "none"]

KMIdle == value_grid = NoGrid /\ kmask_out = NoGrid

LMIdle ==
    /\ input_map = NoGrid /\ kappa = NoGrid /\ phi = NoGrid /\ grad_phi = NoGrid
    /\ deflected_pos = NoGrid /\ deflected_pix = NoGrid /\ output_map = NoGrid
    /\ lens_result = NoGrid

NBIdle ==
    /\ data = NoGrid /\ ucltt = NoGrid /\ lcltt = NoGrid
    /\ kbeam2d = NoGrid /\ Clnoise = 0 /\ observed = NoGrid

QEInit ==
    /\ pc = "idle"
    /\ error = "none"
    /\ N \in GridSizes
    /\ pix_size \in FourierPixSizes
    /\ ly = LyOf(N, pix_size)
    /\ lx = LxOf(N, pix_size)
    /\ modlmap = ModlSqOf(N, pix_size)
    /\ ellmin \in 1 .. MaxEllMin
    /\ ellmax \in {e \in 2 .. MaxEllMax : e > ellmin}
    /\ tmap = <<"tmap">>
    /\ \E tab \in [0 .. 2 -> 0 .. 1] : unlensed_cmb_power_2d = PowerGrid(tab, modlmap)
    /\ \E tab \in [0 .. 2 -> 0 .. MaxPower] : total_cmb_power_2d = PowerGrid(tab, modlmap)
    /\ inv_noise_filter = NoGrid
    /\ grad_filter = NoGrid
    /\ gradTy = NoGrid
    /\ gradTx = NoGrid
    /\ filtered_gradTy = NoGrid
    /\ filtered_gradTx = NoGrid
    /\ filtered_T = NoGrid
    /\ qe_result = [kind |-> "none"]
    /\ divisions = {}
    /\ globals = NotebookGlobals
    /\ Map1 = NoGrid /\ Map2 = NoGrid /\ delta_ell = 1 /\ ell_max = 1
    /\ PSIdle /\ DivIdle /\ KMIdle /\ NBIdle /\ LMIdle

\* lines 187-188: the two band-limited transfer functions; each quotient is
\* evaluated on the whole grid before kmask sees it
QEFilters ==
    /\ pc = "idle"
    /\ inv_noise_filter' =
         KMask([p \in DOMAIN total_cmb_power_2d |-> Divide(1, total_cmb_power_2d[p])],
               modlmap, ellmin, ellmax)
    /\ grad_filter' =
         KMask([p \in DOMAIN total_cmb_power_2d |->
                   Divide(unlensed_cmb_power_2d[p], total_cmb_power_2d[p])],
               modlmap, ellmin, ellmax)
    /\ divisions' = divisions \cup DivisionsOf(187, total_cmb_power_2d)
                              \cup DivisionsOf(188, total_cmb_power_2d)
    /\ pc' = "filters"
    /\ UNCHANGED <<error, N, pix_size, tmap, unlensed_cmb_power_2d, total_cmb_power_2d,
                   gradTy, gradTx, filtered_gradTy, filtered_gradTx, filtered_T,
                   qe_result, globals>>
    /\ UNCHANGED <<psvars, fgvars, divvars, kmvars, nbvars, lmvars>>

\* line 190
QEGradient ==
    /\ pc = "filters"
    /\ gradTy' = GradientY(tmap, ly)
    /\ gradTx' = GradientX(tmap, lx)
    /\ pc' = "gradient"
    /\ UNCHANGED <<error, N, pix_size, tmap, unlensed_cmb_power_2d, total_cmb_power_2d,
                   inv_noise_filter, grad_filter, filtered_gradTy, filtered_gradTx,
                   filtered_T, qe_result, divisions, globals>>
    /\ UNCHANGED <<psvars, fgvars, divvars, kmvars, nbvars, lmvars>>

\* the two transfer functions exchanged
QEFilterMapsSwapped ==
    /\ pc = "gradient"
    /\ filtered_gradTy' = FilterMap(gradTy, inv_noise_filter)
    /\ filtered_gradTx' = FilterMap(gradTx, inv_noise_filter)
    /\ filtered_T' = FilterMap(tmap, grad_filter)
    /\ pc' = "filtered"
    /\ UNCHANGED <<error, N, pix_size, tmap, unlensed_cmb_power_2d, total_cmb_power_2d,
                   inv_noise_filter, grad_filter, gradTy, gradTx, qe_result,
                   divisions, globals>>
    /\ UNCHANGED <<psvars, fgvars, divvars, kmvars, nbvars, lmvars>>

\* lines 193-196
QEFilterMaps ==
    /\ pc = "gradient"
    /\ filtered_gradTy' = FilterMap(gradTy, grad_filter)
    /\ filtered_gradTx' = FilterMap(gradTx, grad_filter)
    /\ filtered_T' = FilterMap(tmap, inv_noise_filter)
    /\ pc' = "filtered"
    /\ UNCHANGED <<error, N, pix_size, tmap, unlensed_cmb_power_2d, total_cmb_power_2d,
                   inv_noise_filter, grad_filter, gradTy, gradTx, qe_result,
                   divisions, globals>>
    /\ UNCHANGED <<psvars, fgvars, divvars, kmvars, nbvars, lmvars>>

\* lines 198-204: no statement binds recon_kappa inside the function, so the
\* return statement looks the name up at notebook level; the arguments of
\* lm.filter_map are evaluated left to right, recon_kappa first
QEReturn ==
    /\ pc = "filtered"
    /\ IF "recon_kappa" \in globals
       THEN /\ qe_result' =
                 [kind |-> "map",
                  term |-> Negated(FilterMap(<<"global", "recon_kappa">>,
                              KMask([p \in DOMAIN modlmap |-> Divide(1, modlmap[p])],
                                    modlmap, 2, NoUpper)))]
            /\ divisions' = divisions \cup DivisionsOf(204, modlmap)
            /\ pc' = "done"
            /\ error' = "none"
       ELSE /\ qe_result' = [kind |-> "none"]
            /\ divisions' = divisions
            /\ pc' = "error"
            /\ error' = "NameError"
    /\ UNCHANGED <<N, pix_size, tmap, unlensed_cmb_power_2d, total_cmb_power_2d,
                   inv_noise_filter, grad_filter, gradTy, gradTx, filtered_gradTy,
                   filtered_gradTx, filtered_T, globals>>
    /\ UNCHANGED <<psvars, fgvars, divvars, kmvars, nbvars, lmvars>>

QENext == QEFilters \/ QEGradient \/ QEFilterMaps \/ QEReturn

\* ---------------------------------------------------- claims: qe_reconstruct
\* C6: qe_reconstruct returns
\* -filter_map(divergence(filtered_gradTy * filtered_T, filtered_gradTx * filtered_T,
\* ly, lx), kmask(1 / modlmap^2, modlmap, ellmin = 2)).
C6_QEReturnsFilteredDivergence ==
    pc \in {"done", "error"} =>
        /\ qe_result.kind = "map"
        /\ qe_result.term =
             Negated(FilterMap(
                 Divergence(Product(filtered_gradTy, filtered_T),
                            Product(filtered_gradTx, filtered_T), ly, lx),
                 KMask([p \in DOMAIN modlmap |-> Divide(1, modlmap[p])],
                       modlmap, 2, NoUpper)))

\* C13: both transfer functions of qe_reconstruct are limited to the caller's
\* [ellmin, ellmax): inside it the inverse-variance filter is 1 / total power
\* and the Wiener filter is unlensed power / total power, outside it both are
\* zero; the Wiener filter is applied to each component of the gradient of T,
\* the inverse-variance filter to T itself.
InBand(p) == modlmap[p] >= ellmin * ellmin /\ modlmap[p] < ellmax * ellmax

C7_NoZeroDenominator ==
    \A d \in divisions : d.den # 0


\* ------------------------------------------------------------- div, gradient
Phase(h, w, k, m) == (4 \div h) * k[1] * m[1] + (4 \div w) * k[2] * m[2]

\* forward transform of a real grid: F[k] = sum_m x[m] exp(-2 pi i k.m / n),
\* numerators over the grid's own denominator
FFT2(g) ==
    [k \in Pixels(g.h, g.w) |->
        <<SumOver(Pixels(g.h, g.w),
                  [m \in Pixels(g.h, g.w) |-> g.v[m] * IPow(3 * Phase(g.h, g.w, k, m))[1]]),
          SumOver(Pixels(g.h, g.w),
                  [m \in Pixels(g.h, g.w) |-> g.v[m] * IPow(3 * Phase(g.h, g.w, k, m))[2]])>>]

\* real part of the inverse transform of a complex grid G, numerators over h * w
RealIFFT2(h, w, G) ==
    [m \in Pixels(h, w) |->
        SumOver(Pixels(h, w),
                [k \in Pixels(h, w) |-> CMul(G[k], IPow(Phase(h, w, k, m)))[1]])]

\* lm.gradient(map, ly, lx): multiply the transform by i ly (i lx), transform
\* back, keep the real part
SpectralDerivative(g, l) ==
    [h |-> g.h, w |-> g.w, den |-> g.den * g.h * g.w,
     v |-> RealIFFT2(g.h, g.w, [k \in Pixels(g.h, g.w) |-> CMul(<<0, l[k]>>, FFT2(g)[k])])]
Gradient(g, l_y, l_x) == <<SpectralDerivative(g, l_y), SpectralDerivative(g, l_x)>>

WithDen(g) == [h |-> g.h, w |-> g.w, den |-> 1, v |-> g.v]

DivInit ==
    /\ pc = "idle"
    /\ error = "none"
    /\ imap \in {WithDen(m) : m \in FirstMaps}
    /\ N = imap.h
    /\ pix_size \in FourierPixSizes
    /\ ly = LyOf(N, pix_size)
    /\ lx = LxOf(N, pix_size)
    /\ modlmap = ModlSqOf(N, pix_size)
    /\ ellmin = 0 /\ ellmax = NoUpper
    /\ \E field \in {Gradient(imap, ly, lx), <<imap, imap>>} :
        imapy = field[1] /\ imapx = field[2]
    /\ div_result = [kind |-> "none"]
    /\ Map1 = NoGrid /\ Map2 = NoGrid /\ delta_ell = 1 /\ ell_max = 1
    /\ PSIdle /\ QEIdle /\ KMIdle /\ NBIdle /\ LMIdle

\* lines 207-213: the body holds comments only, then returns the name
\* divergence, which nothing in the function binds
DivCall ==
    /\ pc = "idle"
    /\ IF "divergence" \in globals
       THEN /\ div_result' = [kind |-> "global", name |-> "divergence"]
            /\ pc' = "done"
            /\ error' = "none"
       ELSE /\ div_result' = [kind |-> "none"]
            /\ pc' = "error"
            /\ error' = "NameError"
    /\ UNCHANGED <<N, pix_size, imap, imapy, imapx>>
    /\ UNCHANGED <<psvars, fgvars, qevars, kmvars, nbvars, lmvars>>

DivNext == DivCall

ZeroMean(g) == SumOver(Pixels(g.h, g.w), g.v) = 0

\* C10: for a zero-mean map M, div(*gradient(M, ly, lx), ly, lx) is a map whose
\* Fourier coefficient at every pixel is -(ly^2 + lx^2) times that of M.
C10_DivOfGradientIsLaplacian ==
    (pc \in {"done", "error"} /\ ZeroMean(imap) /\ <<imapy, imapx>> = Gradient(imap, ly, lx)) =>
        /\ div_result.kind = "map"
        /\ \A k \in Pixels(N, N) : \A c \in 1 .. 2 :
             FFT2(div_result.map)[k][c] * imap.den =
                 (0 - modlmap[k]) * FFT2(imap)[k][c] * div_result.map.den

\* -------------------------------------------------------------------- kmask
MaxEllSq == 4

\* value grids handed to kmask: modlmap * 0. + 1. (line 270), 1 / modlmap^2
\* (line 204), and the squares themselves
ValueGrids(modl) ==
    {[p \in DOMAIN modl |-> Fin(1, 1)],
     [p \in DOMAIN modl |-> Divide(1, modl[p])],
     [p \in DOMAIN modl |-> Fin(modl[p] + 1, 1)]}

KMInit ==
    /\ pc = "idle"
    /\ error = "none"
    /\ N = 2
    /\ pix_size \in {5400}
    /\ modlmap \in [Pixels(N, N) -> 0 .. MaxEllSq]
    /\ ly = NoGrid /\ lx = NoGrid
    /\ ellmin \in 0 .. MaxEllMin
    /\ ellmax \in {NoUpper} \cup (0 .. MaxEllMin + 1)
    /\ value_grid \in ValueGrids(modlmap)
    /\ kmask_out = NoGrid
    /\ Map1 = NoGrid /\ Map2 = NoGrid /\ delta_ell = 1 /\ ell_max = 1
    /\ PSIdle /\ QEIdle /\ DivIdle /\ NBIdle /\ LMIdle

\* a call lm.kmask(value_grid, modlmap, ellmin, ellmax)
KmaskCall ==
    /\ pc = "idle"
    /\ kmask_out' = KMask(value_grid, modlmap, ellmin, ellmax)
    /\ pc' = "done"
    /\ UNCHANGED <<error, N, pix_size, value_grid>>
    /\ UNCHANGED <<psvars, fgvars, qevars, divvars, nbvars, lmvars>>

KMNext == KmaskCall

MaxNoise == 1
MaxBeamInv == 2

\* band limits, the literals of lines 251-252
BandLimits == {<<1, 2>>, <<1, 3>>}

\* a beam profile: the reciprocal 1 / gauss_beam at the origin (where the beam
\* is 1), for 0 < modlmap <= 2 and above; the beam falls with modlmap
BeamTables ==
    {b \in [0 .. 2 -> 1 .. MaxBeamInv] : b[0] = 1 /\ b[1] <= b[2]}

\* what get_theory reads from the CAMB files, beam_arcmin and noise_uk_arcmin
DataFiles ==
    [ucltt : {[r \in 0 .. 2 |-> 1], [r \in 0 .. 2 |-> IF r = 0 THEN 0 ELSE 1]},
     lcltt : [0 .. 2 -> 0 .. 1],
     beam : BeamTables,
     Clnoise : 1 .. MaxNoise]

\* gauss_beam(modlmap, beam_arcmin) on the grid, each value 1 / b
gauss_beam(modl, tab) == [p \in DOMAIN modl |-> Fin(1, PowerGrid(tab, modl)[p])]

\* 1 / kbeam2d
Reciprocal(grid) == [p \in DOMAIN grid |-> Divide(grid[p].den, grid[p].num)]

Sum(a, b) == <<"sum", a, b>>

\* the noise term left out
TotalPowerNoNoise(lcl, clnoise, kb) == lcl

\* line 231: interp(ells, lcltt)(modlmap) + Clnoise / kbeam2d**2.
TotalPower(lcl, clnoise, kb) ==
    [p \in DOMAIN lcl |->
        lcl[p] + (clnoise * kb[p].den * kb[p].den) \div (kb[p].num * kb[p].num)]

\* line 96 after lines 85 and 93
ObservedOf(kb) == Sum(FilterMap(<<"lensed">>, kb), <<"noise_map">>)

\* line 241
Deconvolved(obs, kb) == FilterMap(obs, Reciprocal(kb))

Stmt(needs, binds) == [needs |-> needs, binds |-> binds]

\* run the statements of a cell against the bound names g; n counts the
\* statements that ran
RECURSIVE RunCell(_, _, _)
RunCell(stmts, g, n) ==
    IF stmts = <<>> THEN [globals |-> g, ran |-> n]
    ELSE IF Head(stmts).needs \subseteq g
         THEN RunCell(Tail(stmts), g \cup Head(stmts).binds, n + 1)
         ELSE [globals |-> g, ran |-> n]

CellError(stmts, run) == IF run.ran < Len(stmts) THEN "NameError" ELSE "none"

AtPrompt == pc \in {"prompt", "error"}

QELocalsIdle ==
    /\ inv_noise_filter = NoGrid
    /\ grad_filter = NoGrid
    /\ gradTy = NoGrid
    /\ gradTx = NoGrid
    /\ filtered_gradTy = NoGrid
    /\ filtered_gradTx = NoGrid
    /\ filtered_T = NoGrid
    /\ qe_result = [kind |-> "none"]
    /\ divisions = {}

qelocals == <<inv_noise_filter, grad_filter, gradTy, gradTx, filtered_gradTy,
              filtered_gradTx, filtered_T, qe_result, divisions>>

\* the kernel has just started: nothing is bound
NBInit ==
    /\ pc = "prompt"
    /\ error = "none"
    /\ N \in GridSizes
    /\ pix_size \in FourierPixSizes
    /\ data \in DataFiles
    /\ \E band \in BandLimits : ellmin = band[1] /\ ellmax = band[2]
    /\ globals = {}
    /\ ly = NoGrid /\ lx = NoGrid /\ modlmap = NoGrid
    /\ ucltt = NoGrid /\ lcltt = NoGrid
    /\ kbeam2d = NoGrid /\ Clnoise = 0 /\ observed = NoGrid
    /\ tmap = NoGrid
    /\ unlensed_cmb_power_2d = NoGrid
    /\ total_cmb_power_2d = NoGrid
    /\ QELocalsIdle
    /\ Map1 = NoGrid /\ Map2 = NoGrid /\ delta_ell = 1 /\ ell_max = 1
    /\ PSIdle /\ DivIdle /\ KMIdle /\ LMIdle

\* lines 16-19
ImportStmts ==
    <<Stmt({}, {"np", "plt", "calculate_2d_spectrum", "make_map", "Plot_Map", "lm"})>>

ImportCell ==
    /\ AtPrompt
    /\ globals' = RunCell(ImportStmts, globals, 0).globals
    /\ pc' = "prompt"
    /\ error' = "none"
    /\ UNCHANGED <<N, pix_size, tmap, unlensed_cmb_power_2d, total_cmb_power_2d, qelocals>>
    /\ UNCHANGED <<psvars, fgvars, divvars, kmvars, nbvars, lmvars>>

\* lines 46-49
SetupStmts ==
    <<Stmt({}, {"patch_deg_width", "pix_size"}),
      Stmt({"lm"}, {"ells", "ucltt", "lcltt", "clkk"}),
      Stmt({"lm", "patch_deg_width", "pix_size", "ells", "ucltt", "clkk"},
           {"N", "lensed", "kappa", "ly", "lx", "modlmap"})>>

SetupCell ==
    /\ AtPrompt
    /\ LET run == RunCell(SetupStmts, globals, 0) IN
        /\ globals' = run.globals
        /\ error' = CellError(SetupStmts, run)
        /\ IF run.ran >= 2
           THEN ucltt' = data.ucltt /\ lcltt' = data.lcltt
           ELSE UNCHANGED <<ucltt, lcltt>>
        /\ IF run.ran >= 3
           THEN /\ ly' = LyOf(N, pix_size)
                /\ lx' = LxOf(N, pix_size)
                /\ modlmap' = ModlSqOf(N, pix_size)
           ELSE UNCHANGED <<ly, lx, modlmap>>
    /\ pc' = "prompt"
    /\ UNCHANGED <<N, pix_size, tmap, unlensed_cmb_power_2d, total_cmb_power_2d, qelocals>>
    /\ UNCHANGED <<ellmin, ellmax, data, kbeam2d, Clnoise, observed>>
    /\ UNCHANGED <<psvars, divvars, kmvars, lmvars>>

\* lines 76-96 (line 100 plots and binds nothing)
BeamStmts ==
    <<Stmt({}, {"beam_arcmin", "gauss_beam"}),
      Stmt({"np", "modlmap"}, {"kbeam2d"}),
      Stmt({"lm", "lensed"}, {"beamed"}),
      Stmt({}, {"noise_uk_arcmin"}),
      Stmt({"np"}, {"Clnoise"}),
      Stmt({"ells"}, {"Dlnoise"}),
      Stmt({"make_map", "N", "pix_size", "ells"}, {"noise_map"}),
      Stmt({}, {"observed"})>>

BeamCell ==
    /\ AtPrompt
    /\ LET run == RunCell(BeamStmts, globals, 0) IN
        /\ globals' = run.globals
        /\ error' = CellError(BeamStmts, run)
        /\ kbeam2d' = IF run.ran >= 2 THEN gauss_beam(modlmap, data.beam) ELSE kbeam2d
        /\ Clnoise' = IF run.ran >= 5 THEN data.Clnoise ELSE Clnoise
        /\ observed' = IF run.ran >= 8 THEN ObservedOf(kbeam2d') ELSE observed
    /\ pc' = "prompt"
    /\ UNCHANGED <<N, pix_size, tmap, unlensed_cmb_power_2d, total_cmb_power_2d, qelocals>>
    /\ UNCHANGED <<data, ucltt, lcltt>>
    /\ UNCHANGED <<psvars, fgvars, divvars, kmvars, lmvars>>

\* lines 169-219
DefStmts == <<Stmt({}, {"qe_reconstruct", "div", "interp"})>>

DefCell ==
    /\ AtPrompt
    /\ globals' = RunCell(DefStmts, globals, 0).globals
    /\ pc' = "prompt"
    /\ error' = "none"
    /\ UNCHANGED <<N, pix_size, tmap, unlensed_cmb_power_2d, total_cmb_power_2d, qelocals>>
    /\ UNCHANGED <<psvars, fgvars, divvars, kmvars, nbvars, lmvars>>

\* lines 230-231
PowerStmts ==
    <<Stmt({"interp", "ells", "ucltt", "modlmap"}, {"unlensed_cmb_power_2d"}),
      Stmt({"interp", "ells", "lcltt", "modlmap", "Clnoise", "kbeam2d"},
           {"total_cmb_power_2d"})>>

PowerCell ==
    /\ AtPrompt
    /\ LET run == RunCell(PowerStmts, globals, 0) IN
        /\ globals' = run.globals
        /\ error' = CellError(PowerStmts, run)
        /\ unlensed_cmb_power_2d' =
             IF run.ran >= 1 THEN PowerGrid(ucltt, modlmap) ELSE unlensed_cmb_power_2d
        /\ total_cmb_power_2d' =
             IF run.ran >= 2 THEN TotalPower(PowerGrid(lcltt, modlmap), Clnoise, kbeam2d)
             ELSE total_cmb_power_2d
    /\ pc' = "prompt"
    /\ UNCHANGED <<N, pix_size, tmap, qelocals>>
    /\ UNCHANGED <<psvars, fgvars, divvars, kmvars, nbvars, lmvars>>

\* line 241
DeconvStmts == <<Stmt({"lm", "observed", "kbeam2d"}, {"tmap"})>>

DeconvCell ==
    /\ AtPrompt
    /\ LET run == RunCell(DeconvStmts, globals, 0) IN
        /\ globals' = run.globals
        /\ error' = CellError(DeconvStmts, run)
        /\ tmap' = IF run.ran >= 1 THEN Deconvolved(observed, kbeam2d) ELSE tmap
    /\ pc' = "prompt"
    /\ UNCHANGED <<N, pix_size, unlensed_cmb_power_2d, total_cmb_power_2d, qelocals>>
    /\ UNCHANGED <<psvars, fgvars, divvars, kmvars, nbvars, lmvars>>

\* lines 251-253: the right-hand side of line 253 is evaluated first; the
\* call raises NameError (line 204), so recon_kappa is never assigned
ReconStmts ==
    <<Stmt({}, {"ellmin", "ellmax"}),
      Stmt({"qe_reconstruct", "tmap", "unlensed_cmb_power_2d", "total_cmb_power_2d",
            "modlmap", "ly", "lx"}, {})>>

ReconCell ==
    /\ AtPrompt
    /\ LET run == RunCell(ReconStmts, globals, 0) IN
        /\ globals' = run.globals
        /\ error' = CellError(ReconStmts, run)
        /\ pc' = IF run.ran >= 2 THEN "idle" ELSE "prompt"
    /\ inv_noise_filter' = NoGrid /\ grad_filter' = NoGrid
    /\ gradTy' = NoGrid /\ gradTx' = NoGrid
    /\ filtered_gradTy' = NoGrid /\ filtered_gradTx' = NoGrid /\ filtered_T' = NoGrid
    /\ qe_result' = [kind |-> "none"]
    /\ divisions' = {}
    /\ UNCHANGED <<N, pix_size, tmap, unlensed_cmb_power_2d, total_cmb_power_2d>>
    /\ UNCHANGED <<psvars, fgvars, divvars, kmvars, nbvars, lmvars>>

NBNext ==
    \/ ImportCell \/ SetupCell \/ BeamCell \/ DefCell \/ PowerCell \/ DeconvCell
    \/ ReconCell
    \/ QEFilters \/ QEGradient \/ QEFilterMaps \/ QEReturn

\* ------------------------------------------------------- claims: the pipeline
InQEReconstruct == pc \in {"idle", "filters", "gradient", "filtered"}

\* C11: whenever qe_reconstruct runs in the notebook, its map argument is the
\* observed map (beamed plus noise) filtered by 1 / kbeam2d, never the observed
\* or the beamed map itself, and its total power is, at every Fourier pixel,
\* the lensed theory power plus Clnoise divided by the squared beam.
C11_QEGetsDeconvolvedMapAndNoisyPower ==
    InQEReconstruct =>
        /\ observed = Sum(FilterMap(<<"lensed">>, kbeam2d), <<"noise_map">>)
        /\ tmap = FilterMap(observed, [p \in DOMAIN kbeam2d |-> Fin(kbeam2d[p].den, 1)])
        /\ tmap # observed
        /\ tmap # FilterMap(<<"lensed">>, kbeam2d)
        /\ DOMAIN total_cmb_power_2d = Pixels(N, N)
        /\ \A p \in Pixels(N, N) :
             /\ kbeam2d[p].kind = "fin" /\ kbeam2d[p].num = 1
             /\ total_cmb_power_2d[p] =
                  PowerGrid(data.lcltt, modlmap)[p]
                      + data.Clnoise * kbeam2d[p].den * kbeam2d[p].den
             /\ total_cmb_power_2d[p] > PowerGrid(data.lcltt, modlmap)[p]

\* qe_reconstruct has filtered a map whose beam is below 1 at some pixel
C11_Witness ==
    /\ pc = "filtered"
    /\ data # NoGrid
    /\ filtered_T = FilterMap(tmap, inv_noise_filter)
    /\ \E p \in DOMAIN kbeam2d : kbeam2d[p].den > 1


\* ------------------------------------------- claims: ell2d against modlmap
\* the frequency index held by position j of an fftshift-ordered axis
ShiftedFreq(n, j) == FreqIndex(n, (j + n - n \div 2) % n)

\* C12: at every pixel of the fftshift-ordered cross-power grid, ell2d equals
\* the modlmap convention, sqrt(fy^2 + fx^2) * 2 pi / (N * pix_size in radians)
\* with (fy, fx) the zero-centred frequency indices of the pixel; the
\* zero-frequency pixel has ell2d = 0.  Compared on the squares:
\* ell2d^2 = Ell2dSq * (10800 / ((N - 1) pix_size))^2 and
\* modlmap^2 = (fy^2 + fx^2) * (21600 / (N pix_size))^2.
C12_Ell2dMatchesModlmap ==
    (pc \in {"loop", "done"} /\ SameShape) =>
        /\ \A p \in Pixels(N, N) :
             Ell2dSq(N, p) * N * N =
                 4 * (N - 1) * (N - 1)
                   * (ShiftedFreq(N, p[1]) * ShiftedFreq(N, p[1])
                        + ShiftedFreq(N, p[2]) * ShiftedFreq(N, p[2]))
        /\ \A p \in Pixels(N, N) :
             (ShiftedFreq(N, p[1]) = 0 /\ ShiftedFreq(N, p[2]) = 0) => Ell2dSq(N, p) = 0


(***************************************************************************)
(* Part 4: calls of calculate_2d_spectrum, qe_reconstruct and lens_map     *)
(* (src/CMB_School_Part_10.ipynb, lines 141-163) in any sequence on the    *)
(* same arguments.  The lens_modules calls of lens_map (kappa_to_phi,      *)
(* gradient, posmap, sky2pix) and scipy's map_coordinates are kept as      *)
(* terms over their arguments.                                             *)
(***************************************************************************)
KappaToPhi(k, modl) == <<"kappa_to_phi", k, modl>>
GradientOf(m, l_y, l_x) == <<"gradient", m, l_y, l_x>>
Posmap(n, pix) == <<"posmap", n, pix>>
SkyToPix(pos, n, pix) == <<"sky2pix", pos, n, pix>>

\* np.empty(shape): a fresh array of arbitrary content
Empty(shape, content) == <<"empty", shape, content>>

\* map_coordinates(input, coordinates, output, order=5, mode='wrap') fills the
\* whole of output from input and coordinates
MapCoordinates(input, coordinates) == <<"map_coordinates", input, coordinates>>

CallsInit ==
    /\ pc = "idle"
    /\ error = "none"
    /\ Map1 \in FirstMaps
    /\ N = Map1.h
    /\ Map2 \in {Map1, TwoPixelMap(N, <<1, 1>>, 1, 0)}
    /\ delta_ell \in {1, 2}
    /\ ell_max = 3
    /\ pix_size \in FourierPixSizes
    /\ ly = LyOf(N, pix_size)
    /\ lx = LxOf(N, pix_size)
    /\ modlmap = ModlSqOf(N, pix_size)
    /\ \E band \in BandLimits : ellmin = band[1] /\ ellmax = band[2]
    /\ tmap = <<"tmap">>
    /\ unlensed_cmb_power_2d = PowerGrid([r \in 0 .. 2 |-> 1], modlmap)
    /\ \E tab \in {[r \in 0 .. 2 |-> 1], [r \in 0 .. 2 |-> r + 1]} :
        total_cmb_power_2d = PowerGrid(tab, modlmap)
    /\ globals = NotebookGlobals
    /\ QELocalsIdle
    /\ input_map = <<"unlensed">>
    /\ kappa = <<"kappa">>
    /\ phi = NoGrid /\ grad_phi = NoGrid /\ deflected_pos = NoGrid
    /\ deflected_pix = NoGrid /\ output_map = NoGrid /\ lens_result = NoGrid
    /\ PSIdle /\ DivIdle /\ KMIdle /\ NBIdle

\* lines 143-153
LensDeflect ==
    /\ pc = "idle"
    /\ phi' = KappaToPhi(kappa, modlmap)
    /\ grad_phi' = GradientOf(phi', ly, lx)
    /\ deflected_pos' = Sum(Posmap(N, pix_size), grad_phi')
    /\ deflected_pix' = SkyToPix(deflected_pos', N, pix_size)
    /\ pc' = "deflected"
    /\ UNCHANGED <<error, N, pix_size, input_map, kappa, output_map, lens_result>>
    /\ UNCHANGED <<psvars, fgvars, qevars, divvars, kmvars, nbvars>>

\* line 156
LensAllocate ==
    /\ pc = "deflected"
    /\ \E content \in 0 .. 1 : output_map' = Empty(N, content)
    /\ pc' = "allocated"
    /\ UNCHANGED <<error, N, pix_size, input_map, kappa, phi, grad_phi, deflected_pos,
                   deflected_pix, lens_result>>
    /\ UNCHANGED <<psvars, fgvars, qevars, divvars, kmvars, nbvars>>

\* lines 160-161
LensInterpolate ==
    /\ pc = "allocated"
    /\ output_map' = MapCoordinates(input_map, deflected_pix)
    /\ pc' = "interpolated"
    /\ UNCHANGED <<error, N, pix_size, input_map, kappa, phi, grad_phi, deflected_pos,
                   deflected_pix, lens_result>>
    /\ UNCHANGED <<psvars, fgvars, qevars, divvars, kmvars, nbvars>>

\* line 163
LensReturn ==
    /\ pc = "interpolated"
    /\ lens_result' = output_map
    /\ pc' = "done"
    /\ UNCHANGED <<error, N, pix_size, input_map, kappa, phi, grad_phi, deflected_pos,
                   deflected_pix, output_map>>
    /\ UNCHANGED <<psvars, fgvars, qevars, divvars, kmvars, nbvars>>

\* the caller goes on to its next call, with the same arguments
NextCall ==
    /\ pc \in {"done", "error"}
    /\ pc' = "idle"
    /\ error' = "none"
    /\ UNCHANGED <<N, pix_size>>
    /\ UNCHANGED <<psvars, fgvars, qevars, divvars, kmvars, nbvars, lmvars>>

CallsNext ==
    \/ SpectrumCall \/ SpectrumLoop \/ SpectrumReturn
    \/ QEFilters \/ QEGradient \/ QEFilterMaps \/ QEReturn
    \/ LensDeflect \/ LensAllocate \/ LensInterpolate \/ LensReturn
    \/ NextCall

\* ------------------------------------------------- claims: no input mutated
\* C14: no step of calculate_2d_spectrum, qe_reconstruct or lens_map changes
\* an input map, a theory power grid or a Fourier coordinate grid; every call
\* ends by returning a new map or spectrum, and that result depends on the
\* arguments only, so calls with equal arguments return equal results.
C14_NoInputMutation ==
    [][/\ UNCHANGED <<tmap, Map1, Map2, input_map, kappa, unlensed_cmb_power_2d,
                      total_cmb_power_2d, ly, lx, modlmap>>
       /\ (pc = "loop" /\ pc' \in {"done", "error"}) =>
            /\ pc' = "done"
            /\ result' =
                 [ell |-> [j \in 0 .. NBinsOf(ell_max, delta_ell) - 1 |->
                              BinCentreStored(j, delta_ell)],
                  cl |-> [j \in 0 .. NBinsOf(ell_max, delta_ell) - 1 |->
                             Scaled(Mean(PSMapOf(Map1, Map2),
                                         BinPixels(N, pix_size, j, delta_ell)),
                                    pix_size)]]
       /\ (pc = "interpolated" /\ pc' \in {"done", "error"}) =>
            /\ pc' = "done"
            /\ lens_result' # input_map /\ lens_result' # kappa
            /\ lens_result' =
                 MapCoordinates(input_map,
                     SkyToPix(Sum(Posmap(N, pix_size),
                                  GradientOf(KappaToPhi(kappa, modlmap), ly, lx)),
                              N, pix_size))
       /\ (pc = "filtered" /\ pc' \in {"done", "error"}) =>
            /\ pc' = "done"
            /\ qe_result'.kind = "map"
            /\ qe_result'.term # tmap
      ]_vars

\* the same, for calculate_2d_spectrum and lens_map alone
SpectrumAndLensPure ==
    [][/\ UNCHANGED <<tmap, Map1, Map2, input_map, kappa, unlensed_cmb_power_2d,
                      total_cmb_power_2d, ly, lx, modlmap>>
       /\ (pc = "loop" /\ pc' \in {"done", "error"}) =>
            /\ pc' = "done"
            /\ result' =
                 [ell |-> [j \in 0 .. NBinsOf(ell_max, delta_ell) - 1 |->
                              BinCentreStored(j, delta_ell)],
                  cl |-> [j \in 0 .. NBinsOf(ell_max, delta_ell) - 1 |->
                             Scaled(Mean(PSMapOf(Map1, Map2),
                                         BinPixels(N, pix_size, j, delta_ell)),
                                    pix_size)]]
       /\ (pc = "interpolated" /\ pc' \in {"done", "error"}) =>
            /\ pc' = "done"
            /\ lens_result' =
                 MapCoordinates(input_map,
                     SkyToPix(Sum(Posmap(N, pix_size),
                                  GradientOf(KappaToPhi(kappa, modlmap), ly, lx)),
                              N, pix_size))
      ]_vars


PSStart == PSInit /\ FGIdle /\ QEIdle /\ DivIdle /\ KMIdle /\ NBIdle /\ LMIdle

Init == PSStart
Next == PSNext
Spec == Init /\ [][Next]_vars

SpecQE == QEInit /\ [][QENext]_vars
SpecDiv == DivInit /\ [][DivNext]_vars

SpecKmask == KMInit /\ [][KMNext]_vars

SpecNotebook == NBInit /\ [][NBNext]_vars

SpecCalls == CallsInit /\ [][CallsNext]_vars
====
